---------------------------- MODULE Spec2Model ----------------------------
(***************************************************************************)
(* Model of measurements_pipeline.py: the four stages (load_dataset,       *)
(* get_cleaned_dataset, add_hour_metrics, export_dataset), the four        *)
(* scheduled jobs that run them over the global measurements_data, and     *)
(* schedule_pipeline with the outer start loop.                            *)
(*                                                                         *)
(* A DataFrame is a record                                                 *)
(*    [columns : sequence of column names,                                 *)
(*     index   : "range" (RangeIndex / integer labels) or "timestamp"      *)
(*               (DatetimeIndex named timestamp),                          *)
(*     rows    : sequence of [idx : row label, cells : column -> value]]   *)
(* Every cell value and row label is a record [k : kind, v : integer]:     *)
(*    num  a number, v in tenths (50 is 5, -15 is -1.5)                    *)
(*    inf  a non-finite number ("inf")                                     *)
(*    nan  a missing value (NaN)                                           *)
(*    txt  text that is no number and no date ("abc")                      *)
(*    dev  the literal "Dev test"                                          *)
(*    str  text of a date-time, v = 24 * day + hour                        *)
(*    dt   a parsed date-time, v = 24 * day + hour                         *)
(*    nat  a null date-time (NaT)                                          *)
(*    bool a boolean, v in {0, 1}                                          *)
(*    pos  an integer row label, v = position in the loaded file           *)
(***************************************************************************)
EXTENDS Integers, Sequences, FiniteSets, TLC

VARIABLES
    measurements_data,   \* the global DataFrame (line 21), an object [id, df]
    scheduler_instance,  \* the global scheduler reference (line 199): 0 is None
    schedulers,          \* every BackgroundScheduler constructed so far
    exit_hooks,          \* number of handlers given to atexit.register
    pc,                  \* per job: where its running instance is
    local,               \* per job: the DataFrame object its stage call was handed
    output_file,         \* cleaned_measurements.csv: NoFile or the table written
    log,                 \* the log records the last step emitted
    input,               \* stage harness: the table first handed to a stage
    calls,               \* stage harness: the stage calls made so far
    arg,                 \* stage harness: the table handed to the last call
    argAfter,            \* stage harness: that same object after the call returned
    ret                  \* stage harness: the table the last call returned

vars == <<measurements_data, scheduler_instance, schedulers, exit_hooks,
          pc, local, output_file, log, input, calls, arg, argAfter, ret>>

pipelineVars == <<measurements_data, scheduler_instance, schedulers, exit_hooks,
                  pc, local, output_file>>

harnessVars == <<input, calls, arg, argAfter, ret>>

-----------------------------------------------------------------------------
(* Bounds of the model *)

MaxRows == 2

-----------------------------------------------------------------------------
(* Cell values *)

V(kind, n) == [k |-> kind, v |-> n]

Num(tenths) == V("num", tenths)

Inf == V("inf", 0)

NaN == V("nan", 0)

Txt == V("txt", 0)

DevTest == V("dev", 0)

Str(t) == V("str", t)

Dt(t) == V("dt", t)

NaT == V("nat", 0)

Bool(b) == V("bool", IF b THEN 1 ELSE 0)

Pos(i) == V("pos", i)

Range(s) == {s[i] : i \in 1..Len(s)}

HasColumn(df, c) == c \in Range(df.columns)

required_columns == <<"timestamp", "grid_purchase", "grid_feedin", "direct_consumption">>

numeric_columns == <<"grid_purchase", "grid_feedin", "direct_consumption">>

\* DataFrame(): no columns, no rows
EmptyFrame == [columns |-> <<>>, index |-> "range", rows |-> <<>>]

\* df.empty: any axis of length 0
IsEmpty(df) == Len(df.rows) = 0 \/ Len(df.columns) = 0

\* a log record; logger.exception logs at level ERROR
Record(level, msg) == [level |-> level, msg |-> msg]


-----------------------------------------------------------------------------
(* Second stage: get_cleaned_dataset (lines 48-102) *)

\* line 71: all(col in df.columns for col in required_columns)
HasRequiredColumns(df) == \A i \in 1..Len(required_columns) : HasColumn(df, required_columns[i])

\* line 76 comparing with a literal no field equals ('Dev Test'): every row
\* stays
DropDevTestNever(df) == [df EXCEPT !.rows = SelectSeq(df.rows, LAMBDA r : TRUE)]

\* line 76: df[df['direct_consumption'] != 'Dev test'], a new frame that keeps
\* the surviving rows' labels
DropDevTest(df) ==
    [df EXCEPT !.rows = SelectSeq(df.rows, LAMBDA r : r.cells["direct_consumption"] # DevTest)]

\* to_numeric(errors='coerce'): a number stays, "inf" parses to the non-finite
\* float, anything else becomes NaN
to_numeric(x) == IF x.k \in {"num", "inf"} THEN x ELSE NaN

\* fillna(0)
fillna(x) == IF x.k = "nan" THEN Num(0) ELSE x

\* astype(int) as a floor
astype_floor(x) == Num(10 * (CHOOSE n \in -100..100 : 10 * n <= x.v /\ x.v < 10 * (n + 1)))

\* astype(int) of a finite number: truncation toward zero
astype_int(x) ==
    IF x.v >= 0 THEN Num((x.v \div 10) * 10) ELSE Num(-(((-x.v) \div 10) * 10))

\* astype(int) raises on a non-finite value (NaN is already filled)
CastRaises(df, col) ==
    \E i \in 1..Len(df.rows) : to_numeric(df.rows[i].cells[col]).k = "inf"

\* line 80 with the rows that fail to parse dropped (dropna for fillna)
CoerceColumnDropping(df, col) ==
    [df EXCEPT !.rows =
        LET kept == SelectSeq(df.rows, LAMBDA r : to_numeric(r.cells[col]) # NaN)
        IN  [i \in 1..Len(kept) |-> [kept[i] EXCEPT !.cells[col] = astype_int(to_numeric(@))]]]

\* line 80, one column: written into the frame in place
CoerceColumn(df, col) ==
    [df EXCEPT !.rows = [i \in 1..Len(df.rows) |->
        [df.rows[i] EXCEPT !.cells[col] = astype_int(fillna(to_numeric(@)))]]]

\* lines 79-80: the loop over the three numeric columns from the i-th on;
\* ok = FALSE when astype raised, df is the frame as the loop left it
RECURSIVE CoerceNumeric(_, _)
CoerceNumeric(df, i) ==
    IF i > Len(numeric_columns) THEN [ok |-> TRUE, df |-> df]
    ELSE IF CastRaises(df, numeric_columns[i]) THEN [ok |-> FALSE, df |-> df]
    ELSE CoerceNumeric(CoerceColumn(df, numeric_columns[i]), i + 1)

\* df.drop(columns=[c]): the column leaves the header and every row
DropColumn(df, c) ==
    [df EXCEPT !.columns = SelectSeq(df.columns, LAMBDA x : x # c),
               !.rows = [i \in 1..Len(df.rows) |->
                   [df.rows[i] EXCEPT !.cells =
                       [x \in (DOMAIN df.rows[i].cells) \ {c} |-> df.rows[i].cells[x]]]]]

\* line 83: drop(columns=['date'], errors='ignore')
DropDate(df) == IF HasColumn(df, "date") THEN DropColumn(df, "date") ELSE df

\* to_datetime(errors='coerce') of one value
to_datetime(x) == IF x.k \in {"str", "dt"} THEN Dt(x.v) ELSE NaT

\* line 86
ParseTimestamp(df) ==
    [df EXCEPT !.rows = [i \in 1..Len(df.rows) |->
        [df.rows[i] EXCEPT !.cells["timestamp"] = to_datetime(@)]]]

\* line 89 with set_index(drop=False): timestamp stays a column
SetTimestampIndexKeepingColumn(df) ==
    LET kept == SelectSeq(df.rows, LAMBDA r : r.cells["timestamp"] # NaT)
        moved == [i \in 1..Len(kept) |-> [kept[i] EXCEPT !.idx = kept[i].cells["timestamp"]]]
    IN  [df EXCEPT !.index = "timestamp", !.rows = moved]

\* line 89: dropna(subset=['timestamp']).set_index('timestamp')
SetTimestampIndex(df) ==
    LET kept == SelectSeq(df.rows, LAMBDA r : r.cells["timestamp"] # NaT)
        moved == [i \in 1..Len(kept) |-> [kept[i] EXCEPT !.idx = kept[i].cells["timestamp"]]]
    IN  DropColumn([df EXCEPT !.index = "timestamp", !.rows = moved], "timestamp")

\* index.duplicated(keep='last')
DuplicatedKeepLast(rows, i) == \E j \in (i + 1)..Len(rows) : rows[j].idx = rows[i].idx

\* index.duplicated(keep='first'): is the i-th label a repeat of an earlier one
Duplicated(rows, i) == \E j \in 1..(i - 1) : rows[j].idx = rows[i].idx

\* the rows whose position satisfies keep, in order
RECURSIVE KeepRows(_, _, _)
KeepRows(rows, keep(_, _), i) ==
    IF i > Len(rows) THEN <<>>
    ELSE (IF keep(rows, i) THEN <<rows[i]>> ELSE <<>>) \o KeepRows(rows, keep, i + 1)

NotDuplicated(rows, i) == ~Duplicated(rows, i)

\* line 90: df[~df.index.duplicated(keep='first')]
DropDuplicates(df) == [df EXCEPT !.rows = KeepRows(df.rows, NotDuplicated, 1)]

\* line 93: fillna(0) of grid_purchase and grid_feedin
RefillNulls(df) ==
    [df EXCEPT !.rows = [i \in 1..Len(df.rows) |->
        [df.rows[i] EXCEPT !.cells["grid_purchase"] = fillna(@),
                           !.cells["grid_feedin"] = fillna(@)]]]

\* df[c] = values: a new column goes last, an existing one is overwritten
SetColumn(df, c, value(_)) ==
    [df EXCEPT !.columns = IF HasColumn(df, c) THEN @ ELSE Append(@, c),
               !.rows = [i \in 1..Len(df.rows) |->
                   [df.rows[i] EXCEPT !.cells =
                       [x \in (DOMAIN df.rows[i].cells) \cup {c} |->
                           IF x = c THEN value(df.rows[i]) ELSE df.rows[i].cells[x]]]]]

\* line 96 reading the wrong column
ConsumptionFlagOfPurchase(r) == Bool(r.cells["grid_purchase"].v > 0)

\* line 96: direct_consumption > 0
ConsumptionFlag(r) == Bool(r.cells["direct_consumption"].v > 0)

AddConsumptionFlag(df) == SetColumn(df, "direct_consumption_flag", ConsumptionFlag)

\* lines 83-98, reached when the numeric loop finished
FinishCleaning(df) ==
    AddConsumptionFlag(RefillNulls(DropDuplicates(SetTimestampIndex(ParseTimestamp(DropDate(df))))))

\* line 73 returning the frame it was given
RejectedKeepsInput(df) == df

\* line 73: return DataFrame()
Rejected(df) == EmptyFrame

\* the value the except branch hands back (line 102): the local df as rebound
\* and written so far
CleanFailure(original, current) == current

\* lines 65-102
get_cleaned_dataset(df) ==
    IF IsEmpty(df) THEN df
    ELSE IF ~HasRequiredColumns(df) THEN Rejected(df)
    ELSE LET coerced == CoerceNumeric(DropDevTest(df), 1)
         IN  IF coerced.ok THEN FinishCleaning(coerced.df)
             ELSE CleanFailure(df, coerced.df)

\* does the call end in the except branch
CleanRaises(df) ==
    /\ ~IsEmpty(df)
    /\ HasRequiredColumns(df)
    /\ ~CoerceNumeric(DropDevTest(df), 1).ok

\* what the call logs (lines 67, 72, 101)
CleanLog(df) ==
    IF IsEmpty(df) THEN <<Record("WARNING", "DataFrame is empty, skipping cleaning process.")>>
    ELSE IF ~HasRequiredColumns(df) THEN <<Record("ERROR", "Missing required columns in dataset.")>>
    ELSE IF CleanRaises(df) THEN <<Record("ERROR", "An error occurred while cleaning")>>
    ELSE <<>>

-----------------------------------------------------------------------------
(* add_hour_metrics (lines 104-137) *)

HourOf(t) == t.v % 24

DayOf(t) == t.v \div 24

\* df.index.hour exists on a DatetimeIndex only
HourRaises(df) == df.index # "timestamp"

\* line 122 keyed by the hour of the record's own day (index.floor('h'))
HourKeyOfDay(r) == Num(r.idx.v * 10)

HourKey(r) == Num(HourOf(r.idx) * 10)

\* line 122: df['hour'] = df.index.hour, a column written into the caller's object
SetHour(df) == SetColumn(df, "hour", HourKey)

\* the sum of column col over the rows from the i-th on that satisfy same
RECURSIVE SumWhere(_, _, _, _)
SumWhere(rows, col, same(_), i) ==
    IF i > Len(rows) THEN 0
    ELSE (IF same(rows[i]) THEN rows[i].cells[col].v ELSE 0) + SumWhere(rows, col, same, i + 1)

\* line 123: groupby('hour')[col].sum(), looked up for row r
HourlyTotal(df, col, r) ==
    LET SameHour(x) == x.cells["hour"] = r.cells["hour"]
    IN  Num(SumWhere(df.rows, col, SameHour, 1))

\* line 123 raises when a summed column is absent
SumRaises(df) == ~HasColumn(df, "grid_purchase") \/ ~HasColumn(df, "grid_feedin")

\* line 126 raises when a column of the totals is already a column of df
\* (join without suffixes)
JoinRaises(df) == HasColumn(df, "grid_purchase_total") \/ HasColumn(df, "grid_feedin_total")

\* lines 123-126: df.join(hourly_totals, on='hour', how='left'), a new frame
JoinHourlyTotals(df) ==
    LET PurchaseTotal(r) == HourlyTotal(df, "grid_purchase", r)
        FeedinTotal(r) == HourlyTotal(df, "grid_feedin", r)
    IN  SetColumn(SetColumn(df, "grid_purchase_total", PurchaseTotal),
                  "grid_feedin_total", FeedinTotal)

\* x.max() of column col over the rows of r's calendar day
DayMax(df, col, r) ==
    LET day == {x \in Range(df.rows) : DayOf(x.idx) = DayOf(r.idx)}
    IN  CHOOSE m \in {x.cells[col].v : x \in day} : \A x \in day : x.cells[col].v <= m

\* lines 130-131 flagging one record per day only: the first at the maximum
IsDayMaxFirstOnly(df, col, r) ==
    LET at == CHOOSE i \in 1..Len(df.rows) : df.rows[i].idx = r.idx
    IN  Bool(/\ r.cells[col].v = DayMax(df, col, r)
             /\ \A j \in 1..(at - 1) :
                   DayOf(df.rows[j].idx) = DayOf(r.idx) => df.rows[j].cells[col].v # r.cells[col].v)

\* lines 130-131: groupby(index.floor('D'))[col].transform(lambda x: x == x.max())
IsDayMax(df, col, r) == Bool(r.cells[col].v = DayMax(df, col, r))

MarkDayMaxima(df) ==
    LET PurchaseMax(r) == IsDayMax(df, "grid_purchase", r)
        FeedinMax(r) == IsDayMax(df, "grid_feedin", r)
    IN  SetColumn(SetColumn(df, "max_grid_purchase_hour", PurchaseMax),
                  "max_grid_feedin_hour", FeedinMax)

\* lines 118-122: the caller's object once line 122 has run or been skipped
\* (empty input) or has raised
AfterHour(df) == IF IsEmpty(df) \/ HourRaises(df) THEN df ELSE SetHour(df)

\* does the call end in the except branch
AggregateRaises(df) ==
    /\ ~IsEmpty(df)
    /\ HourRaises(df) \/ SumRaises(SetHour(df)) \/ JoinRaises(SetHour(df))

\* lines 123-137, given the caller's object as line 122 left it: the except
\* branch returns the local df, which is still that object until line 126
AggregateResult(df, keyed) ==
    IF IsEmpty(df) \/ AggregateRaises(df) THEN keyed
    ELSE MarkDayMaxima(DropColumn(JoinHourlyTotals(keyed), "hour"))

\* lines 117-137. ret is the value returned, arg the caller's object as the
\* call leaves it
add_hour_metrics(df) ==
    [ret |-> AggregateResult(df, AfterHour(df)), arg |-> AfterHour(df)]

\* what the call logs (lines 119, 136)
AggregateLog(df) ==
    IF IsEmpty(df) THEN <<Record("WARNING", "DataFrame is empty, skipping hour metrics.")>>
    ELSE IF AggregateRaises(df) THEN <<Record("ERROR", "An error occurred while adding hour metrics")>>
    ELSE <<>>

-----------------------------------------------------------------------------
(* Raw tables, as read_csv can return them *)

\* the column layouts of a source file: the required header, with the optional
\* date column, and with one required column absent
ColumnLayouts ==
    {required_columns, <<"date">> \o required_columns}
        \cup {SelectSeq(required_columns, LAMBDA c : c # m) : m \in Range(required_columns)}

\* what a raw field can hold, per column
RawValues(c) ==
    CASE c = "timestamp" -> {Str(0), Str(1), Txt}
      [] c = "grid_purchase" -> {Num(50), Num(-15), Txt}
      [] c = "grid_feedin" -> {Num(30), Inf}
      [] c = "direct_consumption" -> {Num(10), NaN, DevTest}
      [] OTHER -> {Txt}

\* a row of a file that has all five columns
FullCells ==
    [timestamp : RawValues("timestamp"), grid_purchase : RawValues("grid_purchase"),
     grid_feedin : RawValues("grid_feedin"),
     direct_consumption : RawValues("direct_consumption"), date : RawValues("date")]

RawCells(cols) == {[c \in Range(cols) |-> r[c]] : r \in FullCells}

\* a frame with a RangeIndex over the given rows
Frame(cols, cells) ==
    [columns |-> cols, index |-> "range",
     rows |-> [i \in 1..Len(cells) |-> [idx |-> Pos(i - 1), cells |-> cells[i]]]]

\* df is a raw table of at most MaxRows rows
IsRawTable(df) ==
    \E cols \in ColumnLayouts, n \in 0..MaxRows :
        \E cells \in [1..n -> RawCells(cols)] : df = Frame(cols, cells)

-----------------------------------------------------------------------------
(* First and third stage: load_dataset (lines 24-45), export_dataset        *)
(* (lines 140-156)                                                          *)

Cells(ts, gp, gf, dc) ==
    [timestamp |-> ts, grid_purchase |-> gp, grid_feedin |-> gf, direct_consumption |-> dc]

\* a file whose rows clean to two records: a Dev test row, an unparseable
\* purchase, a missing consumption
GoodSource ==
    Frame(required_columns, <<Cells(Str(0), Num(50), Num(30), Num(10)),
                              Cells(Str(0), Num(20), Num(30), DevTest),
                              Cells(Str(25), Txt, Num(30), NaN)>>)

\* a file with a non-finite feed-in
NonFiniteSource ==
    Frame(required_columns, <<Cells(Str(0), Num(50), Inf, Num(10)),
                              Cells(Str(1), Num(-15), Num(30), DevTest)>>)

\* what measurements_coding_challenge.csv can be when a load reads it
SourceStates ==
    {[kind |-> "missing", df |-> EmptyFrame], [kind |-> "unreadable", df |-> EmptyFrame]}
        \cup {[kind |-> "table", df |-> t] :
                t \in {GoodSource, NonFiniteSource}}

\* lines 39-41 logging the missing file with logger.warning
load_dataset_warning(source) ==
    CASE source.kind = "missing" ->
            [ret |-> EmptyFrame, log |-> <<Record("WARNING", "File not found: %s")>>]
      [] source.kind = "unreadable" ->
            [ret |-> EmptyFrame,
             log |-> <<Record("ERROR", "An error occurred while loading dataset")>>]
      [] OTHER ->
            [ret |-> source.df,
             log |-> <<Record("INFO", "Loaded dataset with %s rows and %s columns.")>>]

\* lines 34-45: the value returned and the records logged
load_dataset(source) ==
    CASE source.kind = "missing" ->
            [ret |-> EmptyFrame, log |-> <<Record("ERROR", "File not found: %s")>>]
      [] source.kind = "unreadable" ->
            [ret |-> EmptyFrame,
             log |-> <<Record("ERROR", "An error occurred while loading dataset")>>]
      [] OTHER ->
            [ret |-> source.df,
             log |-> <<Record("INFO", "Loaded dataset with %s rows and %s columns.")>>]

\* the name to_csv gives the index column
IndexLabel(df) == IF df.index = "timestamp" THEN "timestamp" ELSE ""

\* df.to_csv(index=True): the index first, then the columns in order
to_csv(df) ==
    [header |-> <<IndexLabel(df)>> \o df.columns,
     lines |-> [i \in 1..Len(df.rows) |->
                   <<df.rows[i].idx>> \o [c \in 1..Len(df.columns) |-> df.rows[i].cells[df.columns[c]]]]]

NoFile == [header |-> <<>>, lines |-> <<>>]

\* lines 148-156 without the test of line 149: an empty table is written too
export_dataset_unguarded(df, file, writable) ==
    IF ~writable
    THEN [file |-> file, log |-> <<Record("ERROR", "An error occurred while exporting")>>]
    ELSE [file |-> to_csv(df),
          log |-> <<Record("INFO", "Exported dataset with %s rows and %s columns.")>>]

\* lines 148-156: the file afterwards and the records logged; writable = FALSE
\* is a to_csv that raises before it writes
export_dataset(df, file, writable) ==
    IF IsEmpty(df) THEN [file |-> file, log |-> <<Record("WARNING", "No data to export.")>>]
    ELSE IF ~writable
         THEN [file |-> file, log |-> <<Record("ERROR", "An error occurred while exporting")>>]
         ELSE [file |-> to_csv(df),
               log |-> <<Record("INFO", "Exported dataset with %s rows and %s columns.")>>]

-----------------------------------------------------------------------------
(* Fourth stage: the scheduled jobs (lines 159-197) and schedule_pipeline   *)
(* (lines 199-228)                                                          *)

Jobs == {"Load", "Clean", "Aggregate", "Export"}

\* the order in which references are labelled
Holders == <<"Clean", "Aggregate", "Export">>

\* line 21: measurements_data = DataFrame(). An object is [id, df]: two
\* references are to the same DataFrame exactly when their ids are equal
InitialObject == [id |-> 1, df |-> EmptyFrame]

\* the local of a job that is not inside its stage call
NoObject == [id |-> 0, df |-> EmptyFrame]

PipelineInit ==
    /\ measurements_data = InitialObject
    /\ scheduler_instance = 0
    /\ schedulers = <<>>
    /\ exit_hooks = 0
    /\ pc = [j \in Jobs |-> "idle"]
    /\ local = [j \in Jobs |-> NoObject]
    /\ output_file = NoFile
    /\ log = <<>>

\* BackgroundScheduler()
BackgroundScheduler == [jobs |-> <<>>, running |-> FALSE]

\* add_job(func, 'interval', minutes=5, next_run_time=now + offset seconds)
add_job(s, func, offset) ==
    [s EXCEPT !.jobs = Append(@, [func |-> func, minutes |-> 5, offset |-> offset])]

\* lines 218-224
NewScheduler ==
    [add_job(add_job(add_job(add_job(BackgroundScheduler,
        "load_dataset_job", 0), "get_cleaned_dataset_job", 10),
        "add_hour_metrics_job", 15), "export_dataset_job", 20)
     EXCEPT !.running = TRUE]

\* line 214 without its test
NeverScheduled == FALSE

\* line 214
AlreadyScheduled == scheduler_instance # 0

\* lines 212-228, one iteration of the loop of lines 232-234
schedule_pipeline ==
    /\ IF AlreadyScheduled
       THEN /\ log' = <<Record("WARNING", "Scheduler is already running. Skipping duplicate scheduling.")>>
            /\ UNCHANGED <<scheduler_instance, schedulers, exit_hooks>>
       ELSE /\ schedulers' = Append(schedulers, NewScheduler)
            /\ scheduler_instance' = Len(schedulers) + 1
            /\ exit_hooks' = exit_hooks + 1
            /\ log' = <<Record("INFO", "Pipeline scheduler started.")>>
    /\ UNCHANGED <<measurements_data, pc, local, output_file, harnessVars>>

\* the running scheduler holds a job for func
Scheduled(func) ==
    /\ scheduler_instance # 0
    /\ schedulers[scheduler_instance].running
    /\ \E i \in 1..Len(schedulers[scheduler_instance].jobs) :
          schedulers[scheduler_instance].jobs[i].func = func

\* the label of a DataFrame no reference holds yet
NewId == 0

\* Object identities are labels without meaning: the references are labelled
\* again in the order global, Clean, Aggregate, Export, so that two states
\* differ only when values or aliasing differ
Relabel(g, l) ==
    LET ids == <<g.id>> \o [i \in 1..Len(Holders) |-> l[Holders[i]].id]
        First(x) == CHOOSE i \in 1..Len(ids) : ids[i] = x /\ \A k \in 1..(i - 1) : ids[k] # x
        Live(i) == i = 1 \/ l[Holders[i - 1]] # NoObject
        Label(x) == Cardinality({First(ids[k]) : k \in {i \in 1..First(x) : Live(i)}})
        Named(obj) == IF obj = NoObject THEN obj ELSE [obj EXCEPT !.id = Label(obj.id)]
    IN  [g |-> Named(g), l |-> [j \in Jobs |-> Named(l[j])]]

\* the global and the jobs' locals become g and l
Bind(g, l) ==
    /\ measurements_data' = Relabel(g, l).g
    /\ local' = Relabel(g, l).l

schedulerVars == <<scheduler_instance, schedulers, exit_hooks>>

\* lines 159-162
load_dataset_job ==
    /\ Scheduled("load_dataset_job")
    /\ \E source \in SourceStates :
          /\ Bind([id |-> NewId, df |-> load_dataset(source).ret], local)
          /\ log' = load_dataset(source).log
    /\ UNCHANGED <<schedulerVars, pc, output_file, harnessVars>>

\* lines 166-169 without the test of line 167: the job goes on to its call
CleanCheckUnguarded ==
    /\ Scheduled("get_cleaned_dataset_job")
    /\ pc["Clean"] = "idle"
    /\ log' = <<>>
    /\ pc' = [pc EXCEPT !["Clean"] = "checked"]
    /\ UNCHANGED <<schedulerVars, measurements_data, local, output_file, harnessVars>>

\* lines 166-169: the job fires and tests the global
CleanCheck ==
    /\ Scheduled("get_cleaned_dataset_job")
    /\ pc["Clean"] = "idle"
    /\ IF IsEmpty(measurements_data.df)
       THEN /\ log' = <<Record("WARNING", "Skipping cleaning: No data loaded yet.")>>
            /\ pc' = pc
       ELSE /\ log' = <<>>
            /\ pc' = [pc EXCEPT !["Clean"] = "checked"]
    /\ UNCHANGED <<schedulerVars, measurements_data, local, output_file, harnessVars>>

\* line 170, right-hand side: the global is read again and handed over
CleanCall ==
    /\ pc["Clean"] = "checked"
    /\ pc' = [pc EXCEPT !["Clean"] = "called"]
    /\ Bind(measurements_data, [local EXCEPT !["Clean"] = measurements_data])
    /\ log' = <<>>
    /\ UNCHANGED <<schedulerVars, output_file, harnessVars>>

\* lines 65-102 inside the call and the assignment of line 170: an empty
\* input comes back as the same object
CleanReturn ==
    /\ pc["Clean"] = "called"
    /\ pc' = [pc EXCEPT !["Clean"] = "idle"]
    /\ Bind(IF IsEmpty(local["Clean"].df) THEN local["Clean"]
            ELSE [id |-> NewId, df |-> get_cleaned_dataset(local["Clean"].df)],
            [local EXCEPT !["Clean"] = NoObject])
    /\ log' = CleanLog(local["Clean"].df)
    /\ UNCHANGED <<schedulerVars, output_file, harnessVars>>

\* lines 178-181
AggregateCheck ==
    /\ Scheduled("add_hour_metrics_job")
    /\ pc["Aggregate"] = "idle"
    /\ IF IsEmpty(measurements_data.df)
       THEN /\ log' = <<Record("WARNING", "Skipping hour metrics: No data available.")>>
            /\ pc' = pc
       ELSE /\ log' = <<>>
            /\ pc' = [pc EXCEPT !["Aggregate"] = "checked"]
    /\ UNCHANGED <<schedulerVars, measurements_data, local, output_file, harnessVars>>

\* line 183, right-hand side: the global is read again and handed over
AggregateCall ==
    /\ pc["Aggregate"] = "checked"
    /\ pc' = [pc EXCEPT !["Aggregate"] = "called"]
    /\ Bind(measurements_data, [local EXCEPT !["Aggregate"] = measurements_data])
    /\ log' = <<>>
    /\ UNCHANGED <<schedulerVars, output_file, harnessVars>>

\* obj as its holder sees it once the object labelled id has become df
Written(obj, id, df) == IF obj.id = id THEN [obj EXCEPT !.df = df] ELSE obj

\* lines 118-122 inside the call: the hour column lands in the object handed
\* over, which the global and other running jobs may still reference
AggregateSetHour ==
    /\ pc["Aggregate"] = "called"
    /\ pc' = [pc EXCEPT !["Aggregate"] = "keyed"]
    /\ LET obj == local["Aggregate"]
           after == AfterHour(obj.df)
       IN  /\ Bind(Written(measurements_data, obj.id, after),
                   [j \in Jobs |-> Written(local[j], obj.id, after)])
           /\ log' = IF IsEmpty(obj.df) \/ HourRaises(obj.df) THEN AggregateLog(obj.df) ELSE <<>>
    /\ UNCHANGED <<schedulerVars, output_file, harnessVars>>

\* lines 123-137 and the assignment of line 183: the call returns the object
\* it was handed when that was empty or when it raised, else a new frame
AggregateReturn ==
    /\ pc["Aggregate"] = "keyed"
    /\ pc' = [pc EXCEPT !["Aggregate"] = "idle"]
    /\ LET obj == local["Aggregate"]
       IN  /\ Bind(IF IsEmpty(obj.df) \/ AggregateRaises(obj.df) THEN obj
                   ELSE [id |-> NewId, df |-> AggregateResult(obj.df, obj.df)],
                   [local EXCEPT !["Aggregate"] = NoObject])
           /\ log' = IF IsEmpty(obj.df) \/ HourRaises(obj.df) THEN <<>> ELSE AggregateLog(obj.df)
    /\ UNCHANGED <<schedulerVars, output_file, harnessVars>>

\* lines 192-195
ExportCheck ==
    /\ Scheduled("export_dataset_job")
    /\ pc["Export"] = "idle"
    /\ IF IsEmpty(measurements_data.df)
       THEN /\ log' = <<Record("WARNING", "Skipping export: No data available.")>>
            /\ pc' = pc
       ELSE /\ log' = <<>>
            /\ pc' = [pc EXCEPT !["Export"] = "checked"]
    /\ UNCHANGED <<schedulerVars, measurements_data, local, output_file, harnessVars>>

\* line 197: the global is read again and handed to export_dataset
ExportCall ==
    /\ pc["Export"] = "checked"
    /\ pc' = [pc EXCEPT !["Export"] = "called"]
    /\ Bind(measurements_data, [local EXCEPT !["Export"] = measurements_data])
    /\ log' = <<>>
    /\ UNCHANGED <<schedulerVars, output_file, harnessVars>>

\* lines 148-156 inside the call
ExportWrite ==
    /\ pc["Export"] = "called"
    /\ pc' = [pc EXCEPT !["Export"] = "idle"]
    /\ \E writable \in BOOLEAN :
          /\ output_file' = export_dataset(local["Export"].df, output_file, writable).file
          /\ log' = export_dataset(local["Export"].df, output_file, writable).log
    /\ Bind(measurements_data, [local EXCEPT !["Export"] = NoObject])
    /\ UNCHANGED <<schedulerVars, harnessVars>>

Next ==
    \/ schedule_pipeline
    \/ load_dataset_job
    \/ CleanCheck
    \/ CleanCall
    \/ CleanReturn
    \/ AggregateCheck
    \/ AggregateCall
    \/ AggregateSetHour
    \/ AggregateReturn
    \/ ExportCheck
    \/ ExportCall
    \/ ExportWrite

-----------------------------------------------------------------------------
(* Stage harness: one stage function called on a table, then again on what  *)
(* it returned                                                             *)

MaxCleanCalls == 2

MaxStageCalls == 3

MaxAggRows == 2

HarnessInit ==
    /\ calls = <<>>
    /\ arg = input
    /\ argAfter = input
    /\ ret = input

\* a stage function applied to df: the value returned and the caller's object
\* afterwards. get_cleaned_dataset rebinds its parameter at line 76 and writes
\* only into frames it made, so the caller's object stays as it was
ApplyStage(op, df) ==
    IF op = "clean" THEN [ret |-> get_cleaned_dataset(df), arg |-> df]
    ELSE add_hour_metrics(df)

\* ret = stage(ret)
Call(op, max) ==
    /\ Len(calls) < max
    /\ calls' = Append(calls, op)
    /\ arg' = ret
    /\ argAfter' = ApplyStage(op, ret).arg
    /\ ret' = ApplyStage(op, ret).ret
    /\ log' = IF op = "clean" THEN CleanLog(ret) ELSE AggregateLog(ret)
    /\ UNCHANGED <<input, pipelineVars>>

CleanInit == PipelineInit /\ IsRawTable(input) /\ HarnessInit

CleanNext == Call("clean", MaxCleanCalls)

\* raw fields of the tables handed to the aggregation harness: two days, two
\* hours of the day
MeterValues(c) ==
    CASE c = "timestamp" -> {Str(0), Str(1), Str(24), Str(25)}
      [] c = "grid_purchase" -> {Num(10), Num(20)}
      [] c = "grid_feedin" -> {Num(10), Num(20)}
      [] OTHER -> {Num(10)}

IsMeterTable(df) ==
    \E n \in 0..MaxAggRows :
        \E cells \in [1..n -> [timestamp : MeterValues("timestamp"),
                               grid_purchase : MeterValues("grid_purchase"),
                               grid_feedin : MeterValues("grid_feedin"),
                               direct_consumption : MeterValues("direct_consumption")]] :
            df = Frame(required_columns, cells)

AggInit == PipelineInit /\ IsMeterTable(input) /\ HarnessInit

MaxJobRows == 1

\* the scheduler is running and a load has put a raw table of at most
\* MaxJobRows rows into the global
CleanJobInit ==
    /\ \E cols \in ColumnLayouts, n \in 0..MaxJobRows :
          \E cells \in [1..n -> RawCells(cols)] : input = Frame(cols, cells)
    /\ measurements_data = [id |-> 1, df |-> input]
    /\ scheduler_instance = 1
    /\ schedulers = <<NewScheduler>>
    /\ exit_hooks = 1
    /\ pc = [j \in Jobs |-> "idle"]
    /\ local = [j \in Jobs |-> NoObject]
    /\ output_file = NoFile
    /\ log = <<>>
    /\ HarnessInit

CleanJobNext == CleanCheck \/ CleanCall \/ CleanReturn

\* the Clean job alone, over a loaded snapshot
SpecCleanJob == CleanJobInit /\ [][CleanJobNext]_vars

CallClean == Call("clean", MaxStageCalls)

CallAggregate == Call("aggregate", MaxStageCalls)

AggNext == CallClean \/ CallAggregate

SpecAgg == AggInit /\ [][AggNext]_vars

SpecClean == CleanInit /\ [][CleanNext]_vars

Init == PipelineInit /\ input = EmptyFrame /\ HarnessInit

Spec == Init /\ [][Next]_vars

-----------------------------------------------------------------------------
(* The offset chain (lines 219-222): Load at 0 s, Clean at +10 s, Aggregate *)
(* at +15 s, Export at +20 s, every 5 minutes. Under its timing assumption  *)
(* each job has returned before the next one fires, so a job runs from its  *)
(* test of the global to its assignment with no other job in between.       *)
(* Here calls is the jobs run so far in the current cycle, arg the source    *)
(* the cycle's load read, input the table that load returned and argAfter    *)
(* the snapshot that load found.                                             *)

\* every file of one data row, read at 01:00, under the required header
OneRowSources ==
    {[kind |-> "table", df |-> Frame(required_columns, <<c>>)] :
        c \in [timestamp : {Str(1)}, grid_purchase : RawValues("grid_purchase"),
               grid_feedin : RawValues("grid_feedin"),
               direct_consumption : RawValues("direct_consumption")]}

CycleSources == SourceStates \cup OneRowSources

\* line 162 keeping the snapshot when the load comes back empty
LoadJobKeeping(g, source) ==
    IF IsEmpty(load_dataset(source).ret) THEN g ELSE load_dataset(source).ret

\* line 162: the global after load_dataset_job, whatever it held
LoadJobResult(g, source) == load_dataset(source).ret

\* lines 167-170: the global after get_cleaned_dataset_job
CleanJobResult(g) == IF IsEmpty(g) THEN g ELSE get_cleaned_dataset(g)

CleanJobLog(g) ==
    IF IsEmpty(g) THEN <<Record("WARNING", "Skipping cleaning: No data loaded yet.")>>
    ELSE CleanLog(g)

\* line 183 without its assignment: the global stays the object handed over
AggregateJobDiscarding(g) == IF IsEmpty(g) THEN g ELSE add_hour_metrics(g).arg

\* lines 179-183: the global after add_hour_metrics_job
AggregateJobResult(g) == IF IsEmpty(g) THEN g ELSE add_hour_metrics(g).ret

AggregateJobLog(g) ==
    IF IsEmpty(g) THEN <<Record("WARNING", "Skipping hour metrics: No data available.")>>
    ELSE AggregateLog(g)

\* lines 193-197: the file after export_dataset_job and the records logged
ExportJobResult(g, file, writable) ==
    IF IsEmpty(g)
    THEN [file |-> file, log |-> <<Record("WARNING", "Skipping export: No data available.")>>]
    ELSE export_dataset(g, file, writable)

CycleJobs == <<"load", "clean", "aggregate", "export">>

\* the frame of a job of the cycle
CycleFrame == UNCHANGED <<schedulerVars, pc, local, ret>>

CycleLoad ==
    /\ Scheduled("load_dataset_job")
    /\ calls \in {<<>>, CycleJobs}
    /\ \E source \in CycleSources :
          /\ measurements_data' = [measurements_data EXCEPT
                                     !.df = LoadJobResult(measurements_data.df, source)]
          /\ log' = load_dataset(source).log
          /\ arg' = source
          /\ input' = load_dataset(source).ret
    /\ argAfter' = measurements_data.df
    /\ calls' = <<"load">>
    /\ UNCHANGED output_file
    /\ CycleFrame

CycleClean ==
    /\ Scheduled("get_cleaned_dataset_job")
    /\ calls = <<"load">>
    /\ measurements_data' = [measurements_data EXCEPT !.df = CleanJobResult(@)]
    /\ log' = CleanJobLog(measurements_data.df)
    /\ calls' = Append(calls, "clean")
    /\ UNCHANGED <<output_file, input, arg, argAfter>>
    /\ CycleFrame

CycleAggregate ==
    /\ Scheduled("add_hour_metrics_job")
    /\ calls = <<"load", "clean">>
    /\ measurements_data' = [measurements_data EXCEPT !.df = AggregateJobResult(@)]
    /\ log' = AggregateJobLog(measurements_data.df)
    /\ calls' = Append(calls, "aggregate")
    /\ UNCHANGED <<output_file, input, arg, argAfter>>
    /\ CycleFrame

CycleExport ==
    /\ Scheduled("export_dataset_job")
    /\ calls = <<"load", "clean", "aggregate">>
    /\ \E writable \in BOOLEAN :
          /\ output_file' = ExportJobResult(measurements_data.df, output_file, writable).file
          /\ log' = ExportJobResult(measurements_data.df, output_file, writable).log
    /\ calls' = Append(calls, "export")
    /\ UNCHANGED <<measurements_data, input, arg, argAfter>>
    /\ CycleFrame

\* the scheduler has been started and no job has fired yet
CycleInit ==
    /\ measurements_data = InitialObject
    /\ scheduler_instance = 1
    /\ schedulers = <<NewScheduler>>
    /\ exit_hooks = 1
    /\ pc = [j \in Jobs |-> "idle"]
    /\ local = [j \in Jobs |-> NoObject]
    /\ output_file = NoFile
    /\ log = <<Record("INFO", "Pipeline scheduler started.")>>
    /\ input = EmptyFrame
    /\ HarnessInit

CycleNext == CycleLoad \/ CycleClean \/ CycleAggregate \/ CycleExport

SpecCycle == CycleInit /\ [][CycleNext]_vars

-----------------------------------------------------------------------------
(* Clean called on tables made of the rows of a worked example: a Dev test  *)
(* row at 00:00, then at 01:00 a row with an unparseable purchase and a row  *)
(* with a purchase of 50                                                     *)

MaxExampleRows == 3

ExampleRows ==
    <<Cells(Str(0), Num(1000), Num(200), DevTest),
      Cells(Str(1), Txt, Num(300), Num(100)),
      Cells(Str(1), Num(500), Num(300), Num(100))>>

ExampleTable == Frame(required_columns, ExampleRows)

\* input is a table of at most MaxExampleRows of these rows, in any order
ExampleInit ==
    /\ PipelineInit
    /\ \E n \in 0..MaxExampleRows :
          \E pick \in [1..n -> 1..Len(ExampleRows)] :
              input = Frame(required_columns, [i \in 1..n |-> ExampleRows[pick[i]]])
    /\ HarnessInit

SpecExample == ExampleInit /\ [][CleanNext]_vars

-----------------------------------------------------------------------------
(* The Clean and Aggregate jobs over a loaded snapshot, next to direct calls *)
(* of the two stage functions on that table                                  *)

MaxDirectCalls == 1

\* what a load can have left in the snapshot: nothing, the tables of
\* SourceStates, and for every column layout the file with its header only
\* and every file of one data row
StageTables ==
    {source.df : source \in SourceStates}
        \cup {Frame(cols, <<>>) : cols \in ColumnLayouts}
        \cup UNION {{Frame(cols, <<c>>) : c \in RawCells(cols)} : cols \in ColumnLayouts}

\* the scheduler is running and a load has put such a table into the global
StagesInit ==
    /\ input \in StageTables
    /\ measurements_data = [id |-> 1, df |-> input]
    /\ scheduler_instance = 1
    /\ schedulers = <<NewScheduler>>
    /\ exit_hooks = 1
    /\ pc = [j \in Jobs |-> "idle"]
    /\ local = [j \in Jobs |-> NoObject]
    /\ output_file = NoFile
    /\ log = <<>>
    /\ HarnessInit

StagesNext ==
    \/ CleanCheck
    \/ CleanCall
    \/ CleanReturn
    \/ AggregateCheck
    \/ AggregateCall
    \/ AggregateSetHour
    \/ AggregateReturn
    \/ Call("clean", MaxDirectCalls)
    \/ Call("aggregate", MaxDirectCalls)

SpecStages == StagesInit /\ [][StagesNext]_vars

-----------------------------------------------------------------------------
(* The Load, Clean and Export jobs in any interleaving, once the scheduler  *)
(* runs                                                                      *)

ExportNext ==
    \/ load_dataset_job
    \/ CleanCheck
    \/ CleanCall
    \/ CleanReturn
    \/ ExportCheck
    \/ ExportCall
    \/ ExportWrite

SpecExport == CycleInit /\ [][ExportNext]_vars

-----------------------------------------------------------------------------
(* Shapes of tables, as the claims name them *)

\* an output of Clean: keyed by timestamp, with the consumption flag
IsCleaned(df) == df.index = "timestamp" /\ HasColumn(df, "direct_consumption_flag")

\* carries what Aggregate adds
HasMetrics(df) ==
    \A c \in {"grid_purchase_total", "grid_feedin_total",
              "max_grid_purchase_hour", "max_grid_feedin_hour"} : HasColumn(df, c)

\* carries nothing of what Aggregate adds or leaves behind
NotAggregated(df) ==
    \A c \in {"hour", "grid_purchase_total", "grid_feedin_total",
              "max_grid_purchase_hour", "max_grid_feedin_hour"} : ~HasColumn(df, c)

\* the tables a load can put into the snapshot
LoadedTables == {source.df : source \in {x \in SourceStates : x.kind = "table"}}

-----------------------------------------------------------------------------
(* C1 *)

\* C1: whatever the Export job has written to the output file is a loaded
\* table that went through Clean and then Aggregate, once each: it is the
\* aggregate of the cleaned source, keyed by timestamp, with the flag, the
\* totals and the maximum flags, and without the hour helper column.
C1_ExportedTableWentThroughAllStages ==
    output_file # NoFile =>
        \E t \in LoadedTables :
            LET cleaned == get_cleaned_dataset(t)
                done == add_hour_metrics(cleaned).ret
            IN  /\ IsCleaned(cleaned)
                /\ HasMetrics(done) /\ ~HasColumn(done, "hour")
                /\ output_file = to_csv(done)

-----------------------------------------------------------------------------
(* C2 *)

\* C2: whenever the Aggregate job is inside add_hour_metrics, the table it
\* handed over is non-empty, is an output of Clean and has not been aggregated.
C2_AggregateRunsOnCleanedTable ==
    pc["Aggregate"] = "called" =>
        /\ ~IsEmpty(local["Aggregate"].df)
        /\ IsCleaned(local["Aggregate"].df)
        /\ NotAggregated(local["Aggregate"].df)

-----------------------------------------------------------------------------
(* Rows of a raw table, as the claims about clean name them *)

\* the timestamp a row of df carries, parsed
RowTimestamp(df, i) ==
    IF df.index = "timestamp" THEN df.rows[i].idx
    ELSE IF HasColumn(df, "timestamp") THEN to_datetime(df.rows[i].cells["timestamp"])
    ELSE NaT

\* not a Dev test row, and its timestamp parses
ValidRow(df, i) ==
    /\ df.rows[i].cells["direct_consumption"] # DevTest
    /\ RowTimestamp(df, i) # NaT

\* a valid row with no valid row of the same timestamp before it
FirstSeen(df, i) ==
    /\ ValidRow(df, i)
    /\ \A j \in 1..(i - 1) : ValidRow(df, j) => RowTimestamp(df, j) # RowTimestamp(df, i)

\* the first valid row that carries the timestamp of row i
FirstOf(df, i) ==
    CHOOSE j \in 1..i : FirstSeen(df, j) /\ RowTimestamp(df, j) = RowTimestamp(df, i)

\* the rows of df that carry timestamp t
RowsAt(df, t) == {k \in 1..Len(df.rows) : RowTimestamp(df, k) = t}

\* the integer a raw field stands for: its integer part, 0 when it is no number
Coerced(x) ==
    IF x.k # "num" THEN Num(0)
    ELSE Num(10 * (CHOOSE n \in -100..100 :
                      IF x.v >= 0 THEN 10 * n <= x.v /\ x.v < 10 * (n + 1)
                      ELSE 10 * (n - 1) < x.v /\ x.v <= 10 * n))

\* the call under test is the first clean of a table with the required columns
CleanedOnce == calls = <<"clean">> /\ ~IsEmpty(arg) /\ HasRequiredColumns(arg)

\* ... and it ran to its end
CleanCompleted == CleanedOnce /\ ~CleanRaises(arg)

-----------------------------------------------------------------------------
(* C3 *)

\* the tables C3 is about: non-empty, the four required columns, no Dev test
\* row, no two rows with the same parseable timestamp
AlreadyClean(df) ==
    /\ ~IsEmpty(df)
    /\ HasRequiredColumns(df)
    /\ \A i \in 1..Len(df.rows) : df.rows[i].cells["direct_consumption"] # DevTest
    /\ \A i, j \in 1..Len(df.rows) :
          i # j /\ RowTimestamp(df, i) # NaT => RowTimestamp(df, i) # RowTimestamp(df, j)

\* C3 as stated: cleaning the cleaned table gives the cleaned table.
C3_CleanIsIdempotent ==
    calls = <<"clean", "clean">> /\ AlreadyClean(input) => ret = arg

\* C3 amended: cleaning a non-empty cleaned table gives the empty table (its
\* timestamp is the key, no longer a column); the second clean returns what it
\* was given only when the first returned an empty table or a table it failed
\* to clean.
C3_CleanOfCleanedIsEmpty ==
    calls = <<"clean", "clean">> /\ AlreadyClean(input) =>
        IF IsCleaned(arg) /\ ~IsEmpty(arg) THEN ret = EmptyFrame ELSE ret = arg

C3_Witness ==
    /\ calls = <<"clean", "clean">>
    /\ AlreadyClean(input)
    /\ IsCleaned(arg) /\ Len(arg.rows) = Len(input.rows)
    /\ ret = EmptyFrame

-----------------------------------------------------------------------------
(* C4 *)

\* C4: a clean that fails after the empty and column checks returns its input
\* as it stood before the call.
C4_FailedCleanReturnsInput ==
    calls = <<"clean">> /\ CleanRaises(arg) => ret = arg

-----------------------------------------------------------------------------
(* C6 *)

\* what C6 says of the rows of arg that share a parseable timestamp with
\* another valid row
FirstOccurrenceKept ==
    /\ \A i, j \in 1..Len(arg.rows) :
          i # j /\ ValidRow(arg, i) /\ ValidRow(arg, j)
                /\ RowTimestamp(arg, i) = RowTimestamp(arg, j) =>
              /\ Cardinality(RowsAt(ret, RowTimestamp(arg, i))) = 1
              /\ \A k \in RowsAt(ret, RowTimestamp(arg, i)), c \in Range(numeric_columns) :
                    ret.rows[k].cells[c] = Coerced(arg.rows[FirstOf(arg, i)].cells[c])
    /\ \A k \in 1..Len(ret.rows) :
          RowTimestamp(ret, k) # NaT => RowsAt(ret, RowTimestamp(ret, k)) = {k}

-----------------------------------------------------------------------------
(* C9 *)

\* what C9 says of the first-seen valid rows of arg
UnparseableBecomesZero ==
    \A i \in 1..Len(arg.rows) :
        FirstSeen(arg, i) =>
            /\ Cardinality(RowsAt(ret, RowTimestamp(arg, i))) = 1
            /\ \A k \in RowsAt(ret, RowTimestamp(arg, i)), c \in Range(numeric_columns) :
                  arg.rows[i].cells[c].k \notin {"num", "inf"} => ret.rows[k].cells[c] = Num(0)

-----------------------------------------------------------------------------
(* C10 *)

\* C10 as stated: every numeric field of every row clean returns is an integer
\* that is not negative.
C10_CleanedValuesNonNegative ==
    CleanedOnce =>
        \A k \in 1..Len(ret.rows), c \in Range(numeric_columns) :
            /\ ret.rows[k].cells[c].k = "num"
            /\ ret.rows[k].cells[c].v % 10 = 0
            /\ ret.rows[k].cells[c].v >= 0

\* C10 amended: for every clean that runs to its end, every numeric field of
\* every row is an integer: the integer part of the number the raw field of
\* the first-seen row parses to (so negative when that number is -1 or
\* less), and 0 when the field does not parse.
C10_CleanedValuesAreIntegerParts ==
    CleanCompleted =>
        \A i \in 1..Len(arg.rows) :
            FirstSeen(arg, i) =>
                \A k \in RowsAt(ret, RowTimestamp(arg, i)), c \in Range(numeric_columns) :
                    LET raw == arg.rows[i].cells[c]
                        out == ret.rows[k].cells[c]
                    IN  /\ out.k = "num"
                        /\ out.v % 10 = 0
                        /\ raw.k # "num" => out.v = 0
                        /\ raw.k = "num" /\ raw.v >= 0 => out.v <= raw.v /\ raw.v < out.v + 10
                        /\ raw.k = "num" /\ raw.v < 0 => out.v - 10 < raw.v /\ raw.v <= out.v

C10_Witness ==
    /\ CleanCompleted
    /\ Len(ret.rows) >= 1
    /\ arg.rows[1].cells["grid_purchase"] = Num(-15)
    /\ FirstSeen(arg, 1)
    /\ ret.rows[1].cells["grid_purchase"] = Num(-10)

-----------------------------------------------------------------------------
(* C5 *)

\* C5: an add_hour_metrics that fails on a non-empty table returns that table
\* as it was handed over, without the hour column, the totals or the maximum
\* flags, and leaves the caller's table as it was.
C5_FailedAggregateReturnsInput ==
    /\ Len(calls) > 0
    /\ calls[Len(calls)] = "aggregate"
    /\ AggregateRaises(arg)
    => ret = arg /\ argAfter = arg

-----------------------------------------------------------------------------
(* C7 *)

\* the function names the four job types run
JobFunctions ==
    {"load_dataset_job", "get_cleaned_dataset_job", "add_hour_metrics_job", "export_dataset_job"}

\* C7: however many start requests have been made, at most one scheduler has
\* been constructed, the global refers to it, it holds exactly one recurring
\* job of each of the four types, and one shutdown hook is registered.
C7_SingleSchedulerSingleJobs ==
    /\ Len(schedulers) <= 1
    /\ exit_hooks = Len(schedulers)
    /\ scheduler_instance = Len(schedulers)
    /\ \A n \in 1..Len(schedulers) :
          /\ Len(schedulers[n].jobs) = Cardinality(JobFunctions)
          /\ \A f \in JobFunctions :
                Cardinality({i \in 1..Len(schedulers[n].jobs) : schedulers[n].jobs[i].func = f}) = 1

\* a start request has just been rejected
C7_Witness ==
    /\ log = <<Record("WARNING", "Scheduler is already running. Skipping duplicate scheduling.")>>
    /\ Len(schedulers) = 1
    /\ scheduler_instance = 1

-----------------------------------------------------------------------------
(* C8 *)

\* C8: when the Clean job's call of clean returns, having been handed a
\* non-empty table that lacks a required column, clean's result is the empty
\* table and the snapshot is that empty table.
C8_MissingColumnEmptiesSnapshot ==
    [][(/\ pc["Clean"] = "called"
        /\ pc'["Clean"] = "idle"
        /\ ~IsEmpty(local["Clean"].df)
        /\ ~HasRequiredColumns(local["Clean"].df))
       => (/\ get_cleaned_dataset(local["Clean"].df) = EmptyFrame
           /\ measurements_data'.df = EmptyFrame)]_vars

\* the Clean job has just returned from a table with rows and without one of
\* the required columns
C8_Witness ==
    /\ ~IsEmpty(input) /\ ~HasRequiredColumns(input)
    /\ Len(input.rows) > 0
    /\ pc["Clean"] = "idle"
    /\ log = <<Record("ERROR", "Missing required columns in dataset.")>>
    /\ measurements_data.df = EmptyFrame

-----------------------------------------------------------------------------
(* C11 *)

\* the record at position k of df holds the largest value of col among the
\* records of df on its calendar day
AtDayMaximum(df, col, k) ==
    \A j \in 1..Len(df.rows) :
        DayOf(df.rows[j].idx) = DayOf(df.rows[k].idx) =>
            df.rows[j].cells[col].v <= df.rows[k].cells[col].v

\* C11: in a table that carries the maximum flags, a record has
\* max_grid_purchase_hour true exactly when its grid_purchase is the largest
\* of its calendar day, so every record tied at the maximum is flagged; the
\* same for max_grid_feedin_hour and grid_feedin.
C11_DayMaximaAllFlagged ==
    HasMetrics(ret) =>
        \A k \in 1..Len(ret.rows) :
            /\ ret.rows[k].cells["max_grid_purchase_hour"] = Bool(AtDayMaximum(ret, "grid_purchase", k))
            /\ ret.rows[k].cells["max_grid_feedin_hour"] = Bool(AtDayMaximum(ret, "grid_feedin", k))

\* two records of one day tied at the largest purchase, both flagged, and of
\* different feed-in, one flagged
C11_Witness ==
    /\ calls = <<"clean", "aggregate">>
    /\ Len(ret.rows) = 2
    /\ DayOf(ret.rows[1].idx) = DayOf(ret.rows[2].idx)
    /\ ret.rows[1].cells["grid_purchase"] = ret.rows[2].cells["grid_purchase"]
    /\ ret.rows[1].cells["max_grid_purchase_hour"] = Bool(TRUE)
    /\ ret.rows[2].cells["max_grid_purchase_hour"] = Bool(TRUE)
    /\ ret.rows[1].cells["grid_feedin"].v < ret.rows[2].cells["grid_feedin"].v
    /\ ret.rows[1].cells["max_grid_feedin_hour"] = Bool(FALSE)
    /\ ret.rows[2].cells["max_grid_feedin_hour"] = Bool(TRUE)

-----------------------------------------------------------------------------
(* C12 *)

\* the cycle's load has just returned from a source of this kind
Loaded(kind) == calls = <<"load">> /\ arg.kind = kind

\* the load handed back an empty table and logged one record, at this level
LoadedEmptyAt(level) ==
    /\ input = EmptyFrame
    /\ measurements_data.df = EmptyFrame
    /\ Len(log) = 1
    /\ log[1].level = level

\* C12 as stated: a load of a source that does not exist returns an empty
\* table and reports it at warning level; any other failed load returns an
\* empty table and reports it at error level.
C12_MissingSourceIsWarning ==
    /\ Loaded("missing") => LoadedEmptyAt("WARNING")
    /\ Loaded("unreadable") => LoadedEmptyAt("ERROR")

\* C12 amended: a load of a source that does not exist returns an empty table
\* and reports it at error level, and so does any other failed load.
C12_FailedLoadIsEmptyAndError ==
    /\ Loaded("missing") =>
          LoadedEmptyAt("ERROR") /\ log[1].msg = "File not found: %s"
    /\ Loaded("unreadable") =>
          LoadedEmptyAt("ERROR") /\ log[1].msg = "An error occurred while loading dataset"

\* a load of a missing source over a snapshot that held data
C12_Witness ==
    /\ Loaded("missing")
    /\ ~IsEmpty(argAfter)
    /\ measurements_data.df = EmptyFrame
    /\ log = <<Record("ERROR", "File not found: %s")>>

-----------------------------------------------------------------------------
(* C13 *)

\* C13: a step in which the Export job finds the snapshot empty, or in which
\* export_dataset is handed an empty table, leaves the output file as it was
\* and logs a warning.
C13_EmptyExportWritesNothing ==
    [][/\ (ExportCheck /\ IsEmpty(measurements_data.df)) =>
              /\ output_file' = output_file
              /\ pc'["Export"] = "idle"
              /\ log' = <<Record("WARNING", "Skipping export: No data available.")>>
       /\ (ExportWrite /\ IsEmpty(local["Export"].df)) =>
              /\ output_file' = output_file
              /\ log' = <<Record("WARNING", "No data to export.")>>]_vars

\* export_dataset has just returned from an empty table, with the file of an
\* earlier export still in place
C13_Witness ==
    /\ log = <<Record("WARNING", "No data to export.")>>
    /\ pc["Export"] = "idle"
    /\ output_file # NoFile
    /\ Len(output_file.lines) > 0

-----------------------------------------------------------------------------
(* C14 *)

\* the positions of the rows of df that are not Dev test rows
Readings(df) == {i \in 1..Len(df.rows) : df.rows[i].cells["direct_consumption"] # DevTest}

\* C14: of a raw table with the four required columns, clean returns no Dev
\* test row. When the clean runs to its end, the output has exactly one record
\* for each parseable timestamp of a row that is not a Dev test row, with the
\* values of the first such row, whatever Dev test rows share the timestamp;
\* when it fails, the table it hands back holds exactly the rows that are not
\* Dev test rows, under their labels.
C14_DevTestRowsRemoved ==
    CleanedOnce =>
        IF CleanRaises(arg)
        THEN /\ {ret.rows[k].idx : k \in 1..Len(ret.rows)} = {Pos(i - 1) : i \in Readings(arg)}
             /\ Len(ret.rows) = Cardinality(Readings(arg))
        ELSE /\ {ret.rows[k].idx : k \in 1..Len(ret.rows)}
                   = {RowTimestamp(arg, i) : i \in {j \in Readings(arg) : RowTimestamp(arg, j) # NaT}}
             /\ \A i \in Readings(arg) :
                   FirstSeen(arg, i) =>
                       /\ Cardinality(RowsAt(ret, RowTimestamp(arg, i))) = 1
                       /\ \A k \in RowsAt(ret, RowTimestamp(arg, i)), c \in Range(numeric_columns) :
                             ret.rows[k].cells[c] = Coerced(arg.rows[i].cells[c])

\* a Dev test row comes first and shares its timestamp with a reading of
\* another purchase: the reading is what comes out
C14_Witness ==
    /\ CleanCompleted
    /\ Len(arg.rows) = 2
    /\ arg.rows[1].cells["direct_consumption"] = DevTest
    /\ arg.rows[2].cells["direct_consumption"] = Num(10)
    /\ arg.rows[1].cells["timestamp"] = arg.rows[2].cells["timestamp"]
    /\ arg.rows[1].cells["grid_purchase"] = Num(50)
    /\ arg.rows[2].cells["grid_purchase"] = Num(-15)
    /\ Len(ret.rows) = 1
    /\ ret.rows[1].cells["grid_purchase"] = Num(-10)
    /\ ret.rows[1].cells["direct_consumption"] = Num(10)

-----------------------------------------------------------------------------
(* C15 *)

\* the one record a cleaned table holds at 01:00, with this purchase
OneRowAtOne(purchase) ==
    [columns |-> <<"grid_purchase", "grid_feedin", "direct_consumption", "direct_consumption_flag">>,
     index |-> "timestamp",
     rows |-> <<[idx |-> Dt(1),
                 cells |-> [grid_purchase |-> Num(purchase), grid_feedin |-> Num(300),
                            direct_consumption |-> Num(100),
                            direct_consumption_flag |-> Bool(TRUE)]]>>]

\* C15 as stated: clean of the example's three rows gives one record, at
\* 01:00, with grid_purchase 50, grid_feedin 30, direct_consumption 10 and
\* the flag true.
C15_ExampleKeepsFifty ==
    calls = <<"clean">> /\ arg = ExampleTable => ret = OneRowAtOne(500)

\* C15 amended: the one record, at 01:00, has grid_purchase 0 (the first of the
\* two 01:00 rows is kept, and its purchase "abc" is coerced to 0),
\* grid_feedin 30, direct_consumption 10 and the flag true.
C15_ExampleKeepsFirstRow ==
    calls = <<"clean">> /\ arg = ExampleTable => ret = OneRowAtOne(0)

C15_Witness ==
    /\ calls = <<"clean">>
    /\ arg = ExampleTable
    /\ Len(ret.rows) = 1
    /\ ret.rows[1].idx = Dt(1)
    /\ ret.rows[1].cells["grid_purchase"] = Num(0)

-----------------------------------------------------------------------------
(* C16 *)

\* C16: a Clean or Aggregate job that fires while the snapshot is empty does
\* not go on to its stage call and leaves the snapshot, the same object, in
\* place, logging a warning; get_cleaned_dataset and add_hour_metrics called
\* on an empty table return that table and leave it as it was.
C16_EmptySnapshotSkips ==
    [][/\ (CleanCheck /\ IsEmpty(measurements_data.df)) =>
              /\ pc' = pc
              /\ measurements_data' = measurements_data
              /\ local' = local
              /\ log' = <<Record("WARNING", "Skipping cleaning: No data loaded yet.")>>
       /\ (AggregateCheck /\ IsEmpty(measurements_data.df)) =>
              /\ pc' = pc
              /\ measurements_data' = measurements_data
              /\ local' = local
              /\ log' = <<Record("WARNING", "Skipping hour metrics: No data available.")>>
       /\ (Len(calls') > Len(calls) /\ IsEmpty(ret)) =>
              /\ ret' = ret
              /\ argAfter' = ret
              /\ Len(log') = 1 /\ log'[1].level = "WARNING"]_vars

\* the snapshot is a loaded table with its header and no rows:
\* add_hour_metrics has been called on it and the Clean job has just skipped
C16_Witness ==
    /\ IsEmpty(input) /\ HasRequiredColumns(input)
    /\ calls = <<"aggregate">>
    /\ ret = input /\ argAfter = input
    /\ measurements_data.df = input
    /\ pc = [j \in Jobs |-> "idle"]
    /\ log = <<Record("WARNING", "Skipping cleaning: No data loaded yet.")>>

-----------------------------------------------------------------------------
(* C17 *)

\* the sum of column col over the records of df at the positions in S
RECURSIVE SumAt(_, _, _)
SumAt(df, col, S) ==
    IF S = {} THEN 0
    ELSE LET j == CHOOSE x \in S : TRUE
         IN  df.rows[j].cells[col].v + SumAt(df, col, S \ {j})

\* the positions of the records of df at the hour of day of its k-th record,
\* on whatever day
SameHourOfDay(df, k) ==
    {j \in 1..Len(df.rows) : HourOf(df.rows[j].idx) = HourOf(df.rows[k].idx)}

\* C17: add_hour_metrics of a non-empty cleaned table returns the same records
\* in the same order, each with its own values and with grid_purchase_total
\* and grid_feedin_total equal to the sums of grid_purchase and grid_feedin
\* over all records of the table at the record's hour of day, on all days;
\* the hour column is not in the result.
C17_HourlyTotalsAcrossDays ==
    calls = <<"clean", "aggregate">> /\ ~IsEmpty(arg) /\ IsCleaned(arg) =>
        /\ Len(ret.rows) = Len(arg.rows)
        /\ ~HasColumn(ret, "hour")
        /\ HasColumn(ret, "grid_purchase_total") /\ HasColumn(ret, "grid_feedin_total")
        /\ \A k \in 1..Len(arg.rows) :
              /\ ret.rows[k].idx = arg.rows[k].idx
              /\ \A c \in Range(arg.columns) : ret.rows[k].cells[c] = arg.rows[k].cells[c]
              /\ ret.rows[k].cells["grid_purchase_total"]
                    = Num(SumAt(arg, "grid_purchase", SameHourOfDay(arg, k)))
              /\ ret.rows[k].cells["grid_feedin_total"]
                    = Num(SumAt(arg, "grid_feedin", SameHourOfDay(arg, k)))

\* two records at the same hour of two days: each carries the total of both
C17_Witness ==
    /\ calls = <<"clean", "aggregate">>
    /\ Len(ret.rows) = 2
    /\ ret.rows[1].idx = Dt(0) /\ ret.rows[2].idx = Dt(24)
    /\ ret.rows[1].cells["grid_purchase"] = Num(10)
    /\ ret.rows[2].cells["grid_purchase"] = Num(20)
    /\ ret.rows[1].cells["grid_purchase_total"] = Num(30)
    /\ ret.rows[2].cells["grid_purchase_total"] = Num(30)
    /\ ~HasColumn(ret, "hour")

-----------------------------------------------------------------------------
(* C18 *)

\* the four jobs of the current cycle have run, each after the one before
\* had returned
CycleDone == calls = CycleJobs

\* what the stages make of the table the cycle's load returned
Pipelined(df) == add_hour_metrics(get_cleaned_dataset(df)).ret

\* C18: at the end of a cycle whose jobs ran one after the other and whose
\* loaded table cleans to a non-empty table, Export did not skip, and the
\* table it wrote, when to_csv did not fail, is
\* add_hour_metrics(get_cleaned_dataset(load_dataset(source))), whatever the
\* snapshot held when the cycle began.
C18_CycleExportsPipelinedSource ==
    CycleDone /\ ~IsEmpty(get_cleaned_dataset(input)) =>
        /\ input = load_dataset(arg).ret
        /\ \/ /\ log = <<Record("INFO", "Exported dataset with %s rows and %s columns.")>>
              /\ output_file = to_csv(Pipelined(input))
           \/ log = <<Record("ERROR", "An error occurred while exporting")>>

\* a cycle over a snapshot that held an aggregated table of another cycle has
\* exported the aggregate of its own source
C18_Witness ==
    /\ CycleDone
    /\ HasMetrics(argAfter) /\ ~IsEmpty(argAfter)
    /\ IsCleaned(get_cleaned_dataset(input))
    /\ argAfter # Pipelined(input)
    /\ HasMetrics(Pipelined(input))
    /\ log = <<Record("INFO", "Exported dataset with %s rows and %s columns.")>>
    /\ output_file = to_csv(Pipelined(input))

-----------------------------------------------------------------------------
(* C19 *)

\* the load of the current cycle failed: the source was missing or unreadable
LoadFailed == Len(calls) >= 1 /\ arg.kind # "table"

=============================================================================
